---- MODULE Spec2Model ----
(***************************************************************************)
(* scripts/pr/analyze-pr-threads.py: the PR review-thread report.          *)
(*                                                                         *)
(* The script is one linear pass: resolve the data-file path, check that   *)
(* it exists, load the JSON, extract the thread array, partition it by     *)
(* isResolved, print the header, the resolved section, the unresolved      *)
(* section and the summary.  Each action below is one statement or one     *)
(* loop iteration of the script; pc names the statement that runs next.    *)
(*                                                                         *)
(* Text.  A comment body is a sequence of one-character strings, so that   *)
(* slicing and newline replacement are computed.  stdout is the sequence   *)
(* of print() calls, each a record of the values its f-string formats.     *)
(* The box-drawing characters of the script's literals are written in      *)
(* ASCII here: the rule of U+2550 as Rule, the connector "   U+2514U+2500 " *)
(* as "   |_ ".                                                            *)
(*                                                                         *)
(* Objects.  Python's lists hold references: resolved and unresolved hold  *)
(* the thread objects of threads themselves.  A thread object is named by  *)
(* its position in threads, so resolved and unresolved are sequences of    *)
(* positions and Thread(p) is the object.                                  *)
(***************************************************************************)
EXTENDS Integers, Sequences, FiniteSets, TLC

VARIABLES
    argv,                 \* sys.argv
    fs,                   \* the file system: path -> file
    data_file,            \* line 41
    opened,               \* whether open(data_file) has been called
    data,                 \* line 48: the parsed document
    threads,              \* line 50
    resolved,             \* line 53 (positions in threads)
    unresolved,           \* line 54 (positions in threads)
    ri,                   \* line 69: i of the resolved loop
    ui,                   \* line 85: i of the unresolved loop
    cj,                   \* line 89: j of the comment loop
    has_bot,              \* line 86
    threads_with_bot,     \* line 82
    threads_without_bot,  \* line 83
    stdout,               \* the print() calls so far
    pc,                   \* the statement that runs next
    status,               \* "running", "done", "exited" (sys.exit) or "crashed" (uncaught exception)
    exc,                  \* the uncaught exception, "" if none
    exitCode              \* the process exit status, -1 while running

vars == <<argv, fs, data_file, opened, data, threads, resolved, unresolved, ri, ui, cj,
          has_bot, threads_with_bot, threads_without_bot, stdout, pc, status, exc, exitCode>>

----------------------------------------------------------------------------
(* Bounds of the input. *)

MaxThreads == 2

MaxComments == 2

----------------------------------------------------------------------------
(* Program constants. *)

DefaultPath == "/tmp/pr-threads.json"

ResolvedPreviewLimit == 100

UnresolvedPreviewLimit == 80

bot_names == <<"wcp-claude-dev-buddy[bot]", "Claude Code[bot]">>

Rule == "==========================================="

NL == "\n"

----------------------------------------------------------------------------
(* Python helpers. *)

Min(a, b) == IF a < b THEN a ELSE b

Range(s) == {s[k] : k \in 1..Len(s)}

\* s[:n]
Slice(s, n) == SubSeq(s, 1, Min(Len(s), n))

\* s.replace('\n', ' ')
ReplaceNewlines(s) == [k \in 1..Len(s) |-> IF s[k] = NL THEN " " ELSE s[k]]

PreviewUnsliced(body, limit) == ReplaceNewlines(body)

\* body[:limit].replace('\n', ' ')
Preview(body, limit) == ReplaceNewlines(Slice(body, limit))

RECURSIVE FilterIgnoringFlag(_, _, _)
FilterIgnoringFlag(ts, want, p) ==
    IF p > Len(ts) THEN <<>>
    ELSE IF ts[p].isResolved THEN <<p>> \o FilterIgnoringFlag(ts, want, p + 1)
         ELSE FilterIgnoringFlag(ts, want, p + 1)

RECURSIVE FilterPrepending(_, _, _)
FilterPrepending(ts, want, p) ==
    IF p > Len(ts) THEN <<>>
    ELSE IF ts[p].isResolved = want THEN FilterPrepending(ts, want, p + 1) \o <<p>>
         ELSE FilterPrepending(ts, want, p + 1)

\* [t for t in ts if t['isResolved']] (want) or if not t['isResolved'] (~want):
\* the positions kept, from position p on
RECURSIVE Filter(_, _, _)
Filter(ts, want, p) ==
    IF p > Len(ts) THEN <<>>
    ELSE IF ts[p].isResolved = want THEN <<p>> \o Filter(ts, want, p + 1)
         ELSE Filter(ts, want, p + 1)

DataFileIgnoringArgument(args) == DefaultPath

\* sys.argv[1] if len(sys.argv) > 1 else '/tmp/pr-threads.json'
DataFile(args) == IF Len(args) > 1 THEN args[2] ELSE DefaultPath

----------------------------------------------------------------------------
(* The print() calls. *)

Text(s) == [kind |-> "text", text |-> s]

Count(label, n) == [kind |-> "count", label |-> label, n |-> n]

ErrorLine(path) ==
    [kind |-> "error", path |-> path,
     text |-> " not found. Run the GraphQL query first (see script header)"]

ResolvedIndexFromZero(i) == i - 1

\* enumerate(resolved, 1)
ResolvedIndex(i) == i

\* enumerate(unresolved, 1)
UnresolvedIndex(i) == i

\* f"{i}. {first['author']['login']}: \"{preview}...\""
ResolvedLine(i, author, preview) ==
    [kind |-> "resolved", i |-> i, author |-> author, preview |-> preview, marker |-> "..."]

\* f"\n{i}. ", end=""
IndexPrefix(i) == [kind |-> "index", i |-> i]

ConnectorAlways(j) == "   |_ "

\* lines 96-99: the first comment is top-level, the later ones are indented
Connector(j) == IF j = 0 THEN "" ELSE "   |_ "

\* f"{author}: \"{preview}...\"" or f"   |_ {author}: \"{preview}...\""
CommentLine(j, author, preview) ==
    [kind |-> "comment", connector |-> Connector(j), author |-> author,
     preview |-> preview, marker |-> "..."]

HeaderLines(nThreads, nResolved, nUnresolved) ==
    << Text(Rule), Text("PR REVIEW THREAD ANALYSIS"), Text(Rule),
       Count("Total threads", nThreads),
       Count("Resolved", nResolved),
       Count("Unresolved", nUnresolved) >>

ResolvedBanner ==
    << Text(NL \o Rule), Text("RESOLVED CONVERSATIONS (collapsed on GitHub)"), Text(Rule) >>

UnresolvedBanner ==
    << Text(NL \o Rule), Text("UNRESOLVED CONVERSATIONS (visible on GitHub)"), Text(Rule) >>

SummaryLinesWithOnly(withBot, withoutBot) ==
    << Text(NL \o Rule), Text("SUMMARY OF UNRESOLVED THREADS"), Text(Rule),
       Count("With bot replies", withBot) >>

SummaryLines(withBot, withoutBot) ==
    << Text(NL \o Rule), Text("SUMMARY OF UNRESOLVED THREADS"), Text(Rule),
       Count("With bot replies", withBot),
       Count("Without bot replies (need attention)", withoutBot) >>

----------------------------------------------------------------------------
(* The inputs.  A JSON object is a record with the set of its keys. *)

Digit == <<"0", "1", "2", "3", "4", "5", "6", "7", "8", "9">>

\* A body of the given length: a newline at every fourth character, the
\* last decimal digit of the position elsewhere.
MakeBody(len) == [k \in 1..len |-> IF k % 4 = 0 THEN NL ELSE Digit[(k % 10) + 1]]

Comment(login, body) == [keys |-> {"author", "body"}, author |-> login, body |-> body]

\* The comments the inputs are built from; the last two are malformed.
Pool ==
    << Comment("alice", MakeBody(5)),
       Comment("Claude Code[bot]", MakeBody(UnresolvedPreviewLimit + 1)),
       Comment("dependabot[bot]", MakeBody(ResolvedPreviewLimit + 1)),
       Comment("wcp-claude-dev-buddy[bot]", MakeBody(UnresolvedPreviewLimit)),
       [keys |-> {"body"}, author |-> "", body |-> MakeBody(5)],
       [keys |-> {"author"}, author |-> "alice", body |-> <<>>] >>

\* The conversation of n comments that starts at Pool[seed] and goes round Pool.
Conversation(seed, n) == [k \in 1..n |-> Pool[((seed + k - 2) % Len(Pool)) + 1]]

Conversations ==
    {<<>>} \cup {Conversation(seed, n) : seed \in 1..Len(Pool), n \in 1..MaxComments}

WellFormedThreads ==
    {[keys |-> {"isResolved", "comments"}, isResolved |-> r, nodes |-> c] :
        r \in BOOLEAN, c \in Conversations}

MalformedThreads ==
    {[keys |-> {"isResolved"}, isResolved |-> r, nodes |-> <<>>] : r \in BOOLEAN}
    \cup {[keys |-> {"comments"}, isResolved |-> FALSE, nodes |-> Conversation(1, 1)]}

InputThreads == WellFormedThreads \cup MalformedThreads

ThreadLists(n) == UNION {[1..k -> InputThreads] : k \in 0..n}

\* A file: absent, not JSON, JSON without the key path, or JSON with the thread array.
AbsentFile == [state |-> "absent", nodes |-> <<>>]

FilesUpTo(n) ==
    {AbsentFile, [state |-> "garbage", nodes |-> <<>>], [state |-> "noPath", nodes |-> <<>>]}
    \cup {[state |-> "json", nodes |-> ts] : ts \in ThreadLists(n)}

CustomPath == "custom.json"

Paths == {DefaultPath, CustomPath}

NoData == [loaded |-> FALSE, hasPath |-> FALSE, nodes |-> <<>>]

----------------------------------------------------------------------------

Init ==
    /\ \/ /\ argv = <<"analyze-pr-threads.py">>
          /\ \E f \in FilesUpTo(MaxThreads) :
                fs = [p \in Paths |-> IF p = DefaultPath THEN f ELSE AbsentFile]
       \/ /\ argv = <<"analyze-pr-threads.py", CustomPath>>
          /\ \E f \in FilesUpTo(1), g \in FilesUpTo(0) :
                fs = [p \in Paths |-> IF p = CustomPath THEN f ELSE g]
    /\ data_file = ""
    /\ opened = FALSE
    /\ data = NoData
    /\ threads = <<>>
    /\ resolved = <<>>
    /\ unresolved = <<>>
    /\ ri = 0
    /\ ui = 0
    /\ cj = 0
    /\ has_bot = FALSE
    /\ threads_with_bot = 0
    /\ threads_without_bot = 0
    /\ stdout = <<>>
    /\ pc = "check"
    /\ status = "running"
    /\ exc = ""
    /\ exitCode = -1

\* An uncaught exception: the interpreter prints the traceback to stderr and
\* exits with status 1; nothing more is printed to stdout.
Raise(e) ==
    /\ status' = "crashed"
    /\ exc' = e
    /\ exitCode' = 1

Continue == UNCHANGED <<status, exc, exitCode>>

\* lines 41-45
CheckExists ==
    /\ status = "running" /\ pc = "check"
    /\ data_file' = DataFile(argv)
    /\ IF fs[DataFile(argv)].state = "absent"
       THEN /\ stdout' = Append(stdout, ErrorLine(DataFile(argv)))
            /\ status' = "exited"
            /\ exitCode' = 1
            /\ UNCHANGED <<pc, exc>>
       ELSE /\ pc' = "load"
            /\ UNCHANGED <<stdout, status, exc, exitCode>>
    /\ UNCHANGED <<argv, fs, opened, data, threads, resolved, unresolved, ri, ui, cj,
                   has_bot, threads_with_bot, threads_without_bot>>

\* lines 47-48
Load ==
    /\ status = "running" /\ pc = "load"
    /\ opened' = TRUE
    /\ IF fs[data_file].state = "garbage"
       THEN /\ Raise("JSONDecodeError")
            /\ UNCHANGED <<data, pc>>
       ELSE /\ data' = [loaded |-> TRUE, hasPath |-> fs[data_file].state = "json",
                        nodes |-> fs[data_file].nodes]
            /\ pc' = "extract"
            /\ Continue
    /\ UNCHANGED <<argv, fs, data_file, threads, resolved, unresolved, ri, ui, cj,
                   has_bot, threads_with_bot, threads_without_bot, stdout>>

\* line 50
Extract ==
    /\ status = "running" /\ pc = "extract"
    /\ IF ~data.hasPath
       THEN /\ Raise("KeyError")
            /\ UNCHANGED <<threads, pc>>
       ELSE /\ threads' = data.nodes
            /\ pc' = "partition"
            /\ Continue
    /\ UNCHANGED <<argv, fs, data_file, opened, data, resolved, unresolved, ri, ui, cj,
                   has_bot, threads_with_bot, threads_without_bot, stdout>>

Thread(p) == threads[p]

\* lines 53-54
Partition ==
    /\ status = "running" /\ pc = "partition"
    /\ IF \E p \in 1..Len(threads) : "isResolved" \notin Thread(p).keys
       THEN /\ Raise("KeyError")
            /\ UNCHANGED <<resolved, unresolved, pc>>
       ELSE /\ resolved' = Filter(threads, TRUE, 1)
            /\ unresolved' = Filter(threads, FALSE, 1)
            /\ pc' = "header"
            /\ Continue
    /\ UNCHANGED <<argv, fs, data_file, opened, data, threads, ri, ui, cj,
                   has_bot, threads_with_bot, threads_without_bot, stdout>>

\* lines 56-61
Header ==
    /\ status = "running" /\ pc = "header"
    /\ stdout' = stdout \o HeaderLines(Len(threads), Len(resolved), Len(unresolved))
    /\ pc' = "resolvedSection"
    /\ UNCHANGED <<argv, fs, data_file, opened, data, threads, resolved, unresolved, ri, ui, cj,
                   has_bot, threads_with_bot, threads_without_bot, status, exc, exitCode>>

\* lines 64-67, and the start of the loop of line 69
ResolvedSection ==
    /\ status = "running" /\ pc = "resolvedSection"
    /\ IF resolved # <<>>
       THEN /\ stdout' = stdout \o ResolvedBanner
            /\ ri' = 1
            /\ pc' = "resolvedLoop"
       ELSE /\ pc' = "unresolvedSection"
            /\ UNCHANGED <<stdout, ri>>
    /\ UNCHANGED <<argv, fs, data_file, opened, data, threads, resolved, unresolved, ui, cj,
                   has_bot, threads_with_bot, threads_without_bot, status, exc, exitCode>>

\* lines 69-73: one iteration of the resolved loop
ResolvedIteration ==
    /\ status = "running" /\ pc = "resolvedLoop"
    /\ ri <= Len(resolved)
    /\ LET thread == Thread(resolved[ri])
           first == thread.nodes[1]
       IN  IF "comments" \notin thread.keys
           THEN Raise("KeyError") /\ UNCHANGED <<stdout, ri>>
           ELSE IF thread.nodes = <<>>
           THEN Continue /\ ri' = ri + 1 /\ UNCHANGED stdout
           ELSE IF "body" \notin first.keys \/ "author" \notin first.keys
           THEN Raise("KeyError") /\ UNCHANGED <<stdout, ri>>
           ELSE /\ stdout' = Append(stdout,
                        ResolvedLine(ResolvedIndex(ri), first.author,
                                     Preview(first.body, ResolvedPreviewLimit)))
                /\ ri' = ri + 1
                /\ Continue
    /\ UNCHANGED <<argv, fs, data_file, opened, data, threads, resolved, unresolved, ui, cj,
                   has_bot, threads_with_bot, threads_without_bot, pc>>

\* line 69: the resolved loop is exhausted
ResolvedLoopEnd ==
    /\ status = "running" /\ pc = "resolvedLoop"
    /\ ri > Len(resolved)
    /\ pc' = "unresolvedSection"
    /\ UNCHANGED <<argv, fs, data_file, opened, data, threads, resolved, unresolved, ri, ui, cj,
                   has_bot, threads_with_bot, threads_without_bot, stdout, status, exc, exitCode>>

\* lines 76-83, and the start of the loop of line 85; without an unresolved
\* thread the script ends here
UnresolvedSection ==
    /\ status = "running" /\ pc = "unresolvedSection"
    /\ IF unresolved # <<>>
       THEN /\ stdout' = stdout \o UnresolvedBanner
            /\ threads_with_bot' = 0
            /\ threads_without_bot' = 0
            /\ ui' = 1
            /\ pc' = "unresolvedLoop"
            /\ Continue
       ELSE /\ status' = "done"
            /\ exitCode' = 0
            /\ UNCHANGED <<stdout, threads_with_bot, threads_without_bot, ui, pc, exc>>
    /\ UNCHANGED <<argv, fs, data_file, opened, data, threads, resolved, unresolved, ri, cj,
                   has_bot>>

\* lines 86-89: the index is printed, then the comment list is looked up
ThreadStart ==
    /\ status = "running" /\ pc = "unresolvedLoop"
    /\ ui <= Len(unresolved)
    /\ has_bot' = FALSE
    /\ stdout' = Append(stdout, IndexPrefix(UnresolvedIndex(ui)))
    /\ IF "comments" \notin Thread(unresolved[ui]).keys
       THEN Raise("KeyError") /\ UNCHANGED <<cj, pc>>
       ELSE /\ cj' = 0
            /\ pc' = "commentLoop"
            /\ Continue
    /\ UNCHANGED <<argv, fs, data_file, opened, data, threads, resolved, unresolved, ri, ui,
                   threads_with_bot, threads_without_bot>>

HasBotOfLastComment(seen, author) == author \in Range(bot_names)

\* lines 93-94
HasBot(seen, author) == seen \/ author \in Range(bot_names)

\* lines 89-99: one iteration of the comment loop
CommentIteration ==
    /\ status = "running" /\ pc = "commentLoop"
    /\ cj < Len(Thread(unresolved[ui]).nodes)
    /\ LET comment == Thread(unresolved[ui]).nodes[cj + 1]
       IN  IF "author" \notin comment.keys \/ "body" \notin comment.keys
           THEN Raise("KeyError") /\ UNCHANGED <<has_bot, stdout, cj>>
           ELSE /\ has_bot' = HasBot(has_bot, comment.author)
                /\ stdout' = Append(stdout,
                        CommentLine(cj, comment.author,
                                    Preview(comment.body, UnresolvedPreviewLimit)))
                /\ cj' = cj + 1
                /\ Continue
    /\ UNCHANGED <<argv, fs, data_file, opened, data, threads, resolved, unresolved, ri, ui,
                   threads_with_bot, threads_without_bot, pc>>

WithoutBotAfterMissingElse(n, bot) == n + 1

\* lines 103-104
WithoutBotAfter(n, bot) == IF ~bot THEN n + 1 ELSE n

\* lines 101-102
WithBotAfter(n, bot) == IF bot THEN n + 1 ELSE n

\* lines 101-104: the comment loop is exhausted, the thread is counted
ThreadEnd ==
    /\ status = "running" /\ pc = "commentLoop"
    /\ cj >= Len(Thread(unresolved[ui]).nodes)
    /\ threads_with_bot' = WithBotAfter(threads_with_bot, has_bot)
    /\ threads_without_bot' = WithoutBotAfter(threads_without_bot, has_bot)
    /\ ui' = ui + 1
    /\ pc' = "unresolvedLoop"
    /\ UNCHANGED <<argv, fs, data_file, opened, data, threads, resolved, unresolved, ri, cj,
                   has_bot, stdout, status, exc, exitCode>>

\* lines 106-110: the unresolved loop is exhausted; the script ends
Summary ==
    /\ status = "running" /\ pc = "unresolvedLoop"
    /\ ui > Len(unresolved)
    /\ stdout' = stdout \o SummaryLines(threads_with_bot, threads_without_bot)
    /\ status' = "done"
    /\ exitCode' = 0
    /\ UNCHANGED <<argv, fs, data_file, opened, data, threads, resolved, unresolved, ri, ui, cj,
                   has_bot, threads_with_bot, threads_without_bot, pc, exc>>

Next ==
    \/ CheckExists
    \/ Load
    \/ Extract
    \/ Partition
    \/ Header
    \/ ResolvedSection
    \/ ResolvedIteration
    \/ ResolvedLoopEnd
    \/ UnresolvedSection
    \/ ThreadStart
    \/ CommentIteration
    \/ ThreadEnd
    \/ Summary

Spec == Init /\ [][Next]_vars

----------------------------------------------------------------------------
(* Reading stdout. *)

LinesOfKind(kind) == {q \in 1..Len(stdout) : stdout[q].kind = kind}

CountLines(label) ==
    {q \in 1..Len(stdout) : stdout[q].kind = "count" /\ stdout[q].label = label}

\* The one number printed under the label, -1 if it is not printed exactly once.
Printed(label) ==
    IF Cardinality(CountLines(label)) = 1
    THEN stdout[CHOOSE q \in CountLines(label) : TRUE].n
    ELSE -1

Partitioned == pc \notin {"check", "load", "extract", "partition"}

HeaderPrinted == Partitioned /\ pc # "header"

ResolvedLoopFinished == pc \in {"unresolvedSection", "unresolvedLoop", "commentLoop"}

SameGroup(a, b) == threads[a].isResolved = threads[b].isResolved

GroupOf(a) == IF threads[a].isResolved THEN resolved ELSE unresolved

PrecedesInGroup(a, b) ==
    \E k1, k2 \in 1..Len(GroupOf(a)) :
        k1 < k2 /\ GroupOf(a)[k1] = a /\ GroupOf(a)[k2] = b

\* The stdout positions of the line that opens the rendering of thread a: its
\* numbered line in the resolved section, its index in the unresolved section.
OpeningLines(a) ==
    {q \in LinesOfKind(IF threads[a].isResolved THEN "resolved" ELSE "index") :
        \E k \in 1..Len(GroupOf(a)) : GroupOf(a)[k] = a /\ stdout[q].i = k}

RenderedBefore(a, b) == \E qa \in OpeningLines(a), qb \in OpeningLines(b) : qa < qb

PrintsALine(a) == ~threads[a].isResolved \/ threads[a].nodes # <<>>

\* The index line that opens the block a comment line at q belongs to.
BlockStart(q) == CHOOSE s \in LinesOfKind("index") :
                    s < q /\ \A t \in LinesOfKind("index") : t < q => t <= s

\* What the claims say a preview line is, for a body and a limit.
PreviewAsSpecified(line, body, limit) ==
    /\ Len(line.preview) = Min(Len(body), limit)
    /\ \A k \in 1..Min(Len(body), limit) :
          line.preview[k] = (IF body[k] = "\n" THEN " " ELSE body[k])
    /\ line.marker = "..."

AuthoredByKnownBot(comment) ==
    comment.author \in {"wcp-claude-dev-buddy[bot]", "Claude Code[bot]"}

HasBotReply(a) == \E k \in 1..Len(threads[a].nodes) : AuthoredByKnownBot(threads[a].nodes[k])

UnresolvedWithBot(n) == {k \in 1..n : HasBotReply(unresolved[k])}

UnresolvedWithoutBot(n) == {k \in 1..n : ~HasBotReply(unresolved[k])}

----------------------------------------------------------------------------
(* C1.  Partition: once the thread array is partitioned, every thread is in *)
(* exactly one of resolved (isResolved true) and unresolved (isResolved      *)
(* false), the two lengths add up to the number of threads, and the header   *)
(* prints these three numbers.                                               *)
C1_Partition ==
    Partitioned =>
        /\ Len(resolved) + Len(unresolved) = Len(threads)
        /\ \A a \in 1..Len(threads) :
              LET inResolved == {k \in 1..Len(resolved) : resolved[k] = a}
                  inUnresolved == {k \in 1..Len(unresolved) : unresolved[k] = a}
              IN  /\ Cardinality(inResolved) + Cardinality(inUnresolved) = 1
                  /\ (inResolved # {}) <=> threads[a].isResolved
        /\ HeaderPrinted =>
              /\ Printed("Total threads") = Len(threads)
              /\ Printed("Resolved") = Len(resolved)
              /\ Printed("Unresolved") = Len(unresolved)

C1_Witness ==
    /\ status = "done"
    /\ Len(resolved) >= 1
    /\ Len(unresolved) >= 1
    /\ Printed("Total threads") = Len(threads)

(* C2, as stated.  In a completed run, for any two threads a, b of the same *)
(* group: a precedes b in the group and is rendered before b in the group's  *)
(* section, iff a precedes b in the input array.                             *)
C2_OrderAsStated ==
    status = "done" =>
        \A a, b \in 1..Len(threads) :
            (a # b /\ SameGroup(a, b)) =>
                ((PrecedesInGroup(a, b) /\ RenderedBefore(a, b)) <=> a < b)

(* C2, amended.  In a completed run, for any two threads a, b of the same   *)
(* group: a precedes b in the group iff a precedes b in the input array;     *)
(* and when both print a line (every unresolved thread, a resolved thread    *)
(* only with at least one comment), a is rendered before b iff a precedes b  *)
(* in the input array.                                                       *)
C2_Order ==
    status = "done" =>
        \A a, b \in 1..Len(threads) :
            (a # b /\ SameGroup(a, b)) =>
                /\ PrecedesInGroup(a, b) <=> a < b
                /\ (PrintsALine(a) /\ PrintsALine(b)) => (RenderedBefore(a, b) <=> a < b)

C2_Witness ==
    /\ status = "done"
    /\ Len(threads) >= 2
    /\ \E a, b \in 1..Len(threads) :
          /\ a < b /\ SameGroup(a, b)
          /\ PrintsALine(a) /\ PrintsALine(b)
          /\ RenderedBefore(a, b)

(* C3.  Bot classification: an unresolved thread is counted with bot        *)
(* replies iff one of its comments is authored by exactly                    *)
(* 'wcp-claude-dev-buddy[bot]' or 'Claude Code[bot]', and without otherwise: *)
(* has_bot says so of the comments read so far, the counters of the threads  *)
(* counted so far, and the summary of all unresolved threads.                *)
C3_BotClassification ==
    /\ pc = "commentLoop" =>
          (has_bot <=> \E k \in 1..cj :
                          AuthoredByKnownBot(Thread(unresolved[ui]).nodes[k]))
    /\ pc \in {"unresolvedLoop", "commentLoop"} =>
          /\ threads_with_bot = Cardinality(UnresolvedWithBot(ui - 1))
          /\ threads_without_bot = Cardinality(UnresolvedWithoutBot(ui - 1))
    /\ (status = "done" /\ unresolved # <<>>) =>
          /\ Printed("With bot replies") = Cardinality(UnresolvedWithBot(Len(unresolved)))
          /\ Printed("Without bot replies (need attention)")
                = Cardinality(UnresolvedWithoutBot(Len(unresolved)))

C3_Witness ==
    /\ status = "done"
    /\ \E k \in 1..Len(unresolved) :
          /\ ~HasBotReply(unresolved[k])
          /\ \E c \in 1..Len(Thread(unresolved[k]).nodes) :
                Thread(unresolved[k]).nodes[c].author = "dependabot[bot]"
    /\ \E k \in 1..Len(unresolved) :
          /\ HasBotReply(unresolved[k])
          /\ ~AuthoredByKnownBot(Thread(unresolved[k]).nodes[Len(Thread(unresolved[k]).nodes)])
    /\ Printed("With bot replies") = 1
    /\ Printed("Without bot replies (need attention)") = 1

AttemptedPath == IF Len(argv) > 1 THEN argv[2] ELSE "/tmp/pr-threads.json"

(* C4.  Missing input file: when the path given as argument, or else the    *)
(* default path, names no existing file, the file is never opened or parsed, *)
(* and the program ends with exit status 1 having printed only the error     *)
(* line, which holds that path.                                              *)
C4_MissingFile ==
    fs[AttemptedPath].state = "absent" =>
        /\ ~opened
        /\ data = NoData
        /\ status = "running" => (pc = "check" /\ stdout = <<>>)
        /\ status # "running" =>
              /\ status = "exited"
              /\ exitCode = 1
              /\ Len(stdout) = 1
              /\ stdout[1].kind = "error"
              /\ stdout[1].path = AttemptedPath

C4_Witness ==
    /\ status = "exited"
    /\ Len(argv) > 1
    /\ stdout = <<ErrorLine(argv[2])>>

(* C5.  All-or-nothing report: a run that fails (missing file, JSON parse   *)
(* failure, input of unexpected shape) has printed no line of the report.    *)
C5_AllOrNothing ==
    status \in {"exited", "crashed"} =>
        \A q \in 1..Len(stdout) : stdout[q].kind = "error"

(* C6, as stated.  Every successful run prints the total, resolved and      *)
(* unresolved counts and, after the unresolved section, the counts of        *)
(* unresolved threads with and without a bot reply.                          *)
C6_SummaryAsStated ==
    status = "done" =>
        /\ Printed("Total threads") = Len(threads)
        /\ Printed("Resolved") = Len(resolved)
        /\ Printed("Unresolved") = Len(unresolved)
        /\ Printed("With bot replies") >= 0
        /\ Printed("Without bot replies (need attention)") >= 0

(* C6, amended.  Every successful run prints the total, resolved and        *)
(* unresolved counts; when there is at least one unresolved thread it also   *)
(* prints, after the unresolved section and as its last two lines, the       *)
(* counts with and without a bot reply; when there is none it prints neither *)
(* the unresolved section nor these two counts.                              *)
C6_Summary ==
    status = "done" =>
        /\ Printed("Total threads") = Len(threads)
        /\ Printed("Resolved") = Len(resolved)
        /\ Printed("Unresolved") = Len(unresolved)
        /\ unresolved # <<>> =>
              /\ CountLines("With bot replies") = {Len(stdout) - 1}
              /\ CountLines("Without bot replies (need attention)") = {Len(stdout)}
              /\ \A q \in LinesOfKind("index") \cup LinesOfKind("comment") :
                    q < Len(stdout) - 1
        /\ unresolved = <<>> =>
              /\ CountLines("With bot replies") = {}
              /\ CountLines("Without bot replies (need attention)") = {}
              /\ LinesOfKind("index") \cup LinesOfKind("comment") = {}

C6_Witness ==
    /\ status = "done"
    /\ resolved # <<>>
    /\ unresolved # <<>>
    /\ LinesOfKind("comment") # {}
    /\ CountLines("Without bot replies (need attention)") = {Len(stdout)}

(* C7.  Preview truncation: every printed preview, of a body of length L    *)
(* under the limit K (100 in the resolved section, 80 in the unresolved      *)
(* one), is the first min(L, K) characters of the body with each newline     *)
(* replaced by one space, and is followed by '...' whatever L is.            *)
C7_Preview ==
    /\ \A q \in LinesOfKind("resolved") :
          stdout[q].i \in 1..Len(resolved)
          /\ Thread(resolved[stdout[q].i]).nodes # <<>>
          /\ PreviewAsSpecified(stdout[q], Thread(resolved[stdout[q].i]).nodes[1].body, 100)
    /\ \A q \in LinesOfKind("comment") :
          LET s == BlockStart(q)
          IN  /\ stdout[s].i \in 1..Len(unresolved)
              /\ q - s \in 1..Len(Thread(unresolved[stdout[s].i]).nodes)
              /\ PreviewAsSpecified(stdout[q],
                                    Thread(unresolved[stdout[s].i]).nodes[q - s].body, 80)

C7_Witness ==
    /\ \E q \in LinesOfKind("resolved") :
          /\ Len(Thread(resolved[stdout[q].i]).nodes[1].body) > 100
          /\ Len(stdout[q].preview) = 100
          /\ stdout[q].preview[100] = " "
    /\ \E q \in LinesOfKind("comment") :
          /\ Len(Thread(unresolved[stdout[BlockStart(q)].i]).nodes[q - BlockStart(q)].body) > 80
          /\ Len(stdout[q].preview) = 80
    /\ \E q \in LinesOfKind("comment") :
          /\ Len(stdout[q].preview) < 80
          /\ stdout[q].marker = "..."

(* C8.  Unresolved rendering: in a completed run every unresolved thread,   *)
(* also one without comments, prints its 1-based index exactly once; right   *)
(* after it come its comments in stored order, one line each, the first      *)
(* without and the later ones with the connector; then a line that is no     *)
(* comment line.                                                             *)
C8_UnresolvedRendering ==
    status = "done" =>
        /\ \A q \in LinesOfKind("index") : stdout[q].i \in 1..Len(unresolved)
        /\ \A i \in 1..Len(unresolved) :
              LET nodes == Thread(unresolved[i]).nodes
                  starts == {q \in LinesOfKind("index") : stdout[q].i = i}
              IN  /\ Cardinality(starts) = 1
                  /\ \A s \in starts :
                        /\ s + Len(nodes) < Len(stdout)
                        /\ \A j \in 1..Len(nodes) :
                              /\ stdout[s + j].kind = "comment"
                              /\ stdout[s + j].author = nodes[j].author
                              /\ stdout[s + j].connector = (IF j = 1 THEN "" ELSE "   |_ ")
                        /\ stdout[s + Len(nodes) + 1].kind # "comment"
        /\ \A q \in LinesOfKind("comment") : \E s \in LinesOfKind("index") : s < q

C8_Witness ==
    /\ status = "done"
    /\ \E i \in 1..Len(unresolved) : Thread(unresolved[i]).nodes = <<>>
    /\ \E i \in 1..Len(unresolved) : Len(Thread(unresolved[i]).nodes) >= 2
    /\ \E q \in LinesOfKind("comment") : stdout[q].connector = "   |_ "

(* C9.  Resolved section indexing: once the resolved loop is over, the      *)
(* resolved threads without comments have printed nothing and each resolved  *)
(* thread with a comment has printed exactly one line, numbered with its     *)
(* 1-based position in the whole resolved group and naming its first         *)
(* comment's author, the numbers strictly increasing down the output.        *)
C9_ResolvedIndexing ==
    ResolvedLoopFinished =>
        LET withComment == {k \in 1..Len(resolved) : Thread(resolved[k]).nodes # <<>>}
        IN  /\ {stdout[q].i : q \in LinesOfKind("resolved")} = withComment
            /\ Cardinality(LinesOfKind("resolved")) = Cardinality(withComment)
            /\ \A q1, q2 \in LinesOfKind("resolved") :
                  q1 < q2 => stdout[q1].i < stdout[q2].i
            /\ \A q \in LinesOfKind("resolved") :
                  stdout[q].i \in withComment
                  /\ stdout[q].author = Thread(resolved[stdout[q].i]).nodes[1].author

C9_Witness ==
    /\ status = "done"
    /\ Len(resolved) = 2
    /\ Thread(resolved[1]).nodes = <<>>
    /\ {stdout[q].i : q \in LinesOfKind("resolved")} = {2}

C10_CountersState ==
    /\ pc \in {"unresolvedLoop", "commentLoop"} =>
          threads_with_bot + threads_without_bot = ui - 1
    /\ (status = "done" /\ unresolved # <<>>) =>
          /\ ui - 1 = Len(unresolved)
          /\ Printed("With bot replies") + Printed("Without bot replies (need attention)")
                = Printed("Unresolved")
          /\ Printed("With bot replies") >= 0
          /\ Printed("Without bot replies (need attention)") >= 0

C10_CountersStep ==
    (pc = "commentLoop" /\ ui' = ui + 1) =>
        /\ \/ threads_with_bot' = threads_with_bot + 1
              /\ threads_without_bot' = threads_without_bot
           \/ threads_with_bot' = threads_with_bot
              /\ threads_without_bot' = threads_without_bot + 1
        /\ Thread(unresolved[ui]).nodes = <<>> =>
              threads_without_bot' = threads_without_bot + 1

(* C10.  The bot counters partition the unresolved group: at every point of *)
(* the unresolved loop threads_with_bot + threads_without_bot is the number  *)
(* of threads counted so far, counting a thread adds exactly 1 to exactly    *)
(* one of the two (to threads_without_bot for a thread without comments),    *)
(* and the two printed counts add up to the printed Unresolved count.        *)
C10_Counters == [](C10_CountersState) /\ [][C10_CountersStep]_vars

C10_Witness ==
    /\ status = "done"
    /\ \E i \in 1..Len(unresolved) : Thread(unresolved[i]).nodes = <<>>
    /\ threads_with_bot = 1
    /\ threads_without_bot = 1

====
